---- MODULE Spec2Model ----
(***************************************************************************)
(* Model of plugins/connection/distrobox.py: the Ansible connection plugin *)
(* that runs commands in a distrobox container through the distrobox CLI   *)
(* and copies files through the podman CLI.                                *)
(*                                                                         *)
(* Python values are tagged records: a text string is [t |-> "str", v |->  *)
(* sequence of code points], a byte string is [t |-> "bytes", v |->        *)
(* sequence of byte values], None is [t |-> "none", v |-> <<>>].           *)
(***************************************************************************)
EXTENDS Integers, Sequences, FiniteSets, TLC

(* ------------------------------ bounds -------------------------------- *)
\* longest command string drawn as an input of exec_command
MaxLen == 1
\* child exit codes are drawn from 0..MaxRc
MaxRc == 1

(* --------------------------- python values ---------------------------- *)
Str(s) == [t |-> "str", v |-> s]
Bytes(b) == [t |-> "bytes", v |-> b]
None == [t |-> "none", v |-> <<>>]

\* python truthiness of an optional string: None and '' are false
Truthy(x) == x.t # "none" /\ Len(x.v) > 0

\* text literals of the source, as code points
L_cp == <<99, 112>>
L_exec == <<101, 120, 101, 99>>
L_chown == <<99, 104, 111, 119, 110>>
L_enter == <<101, 110, 116, 101, 114>>
L_a == <<45, 97>>
L_user == <<45, 45, 117, 115, 101, 114, 61>>
L_root == <<114, 111, 111, 116>>
L_name == <<45, 45, 110, 97, 109, 101>>
L_dashdash == <<45, 45>>
L_bash == <<98, 97, 115, 104>>
L_l == <<45, 108>>
L_c == <<45, 99>>
L_colon == <<58>>

\* the executable names the options default to: 'podman', 'distrobox'
podman_executable == Str(<<112, 111, 100, 109, 97, 110>>)
distrobox_executable == Str(<<100, 105, 115, 116, 114, 111, 98, 111, 120>>)

(* ------------------------------ to_bytes ------------------------------ *)
\* the error-handler names ansible's to_bytes maps to 'surrogateescape'
ComposedHandlers ==
    {"surrogate_or_replace", "surrogate_or_strict", "surrogate_then_replace"}

IsSurrogate(c) == c >= 55296 /\ c <= 57343
\* the lone surrogates U+DC80..U+DCFF stand for the undecodable bytes 0x80..0xFF
IsEscaped(c) == c >= 56448 /\ c <= 56575

\* str.encode('utf-8', handler) can encode code point c
CanEncodeChar(c, handler) ==
    IsSurrogate(c) => (handler = "surrogateescape" /\ IsEscaped(c))

\* the UTF-8 bytes of code point c (surrogateescape for U+DC80..U+DCFF)
EncodeChar(c) ==
    IF c < 128 THEN <<c>>
    ELSE IF c < 2048 THEN <<192 + (c \div 64), 128 + (c % 64)>>
    ELSE IF IsEscaped(c) THEN <<c - 56320>>
    ELSE <<224 + (c \div 4096), 128 + ((c \div 64) % 64), 128 + (c % 64)>>

RECURSIVE EncodeSeq(_)
EncodeSeq(s) ==
    IF s = <<>> THEN <<>> ELSE EncodeChar(Head(s)) \o EncodeSeq(Tail(s))

\* the exception str.encode raises on a character it cannot encode: the
\* handler is looked up only then, and an unknown name is a LookupError
EncodeError(handler) ==
    IF handler \in {"strict", "surrogateescape"}
    THEN "UnicodeEncodeError" ELSE "LookupError"

\* to_bytes(obj, errors=errors): bytes pass through, text is UTF-8 encoded
\* with the composed handler names mapped to surrogateescape
to_bytes(obj, errors) ==
    LET handler == IF errors \in ComposedHandlers
                   THEN "surrogateescape" ELSE errors
    IN IF obj.t = "bytes" THEN [exc |-> "none", val |-> obj]
       ELSE IF \A i \in 1..Len(obj.v) : CanEncodeChar(obj.v[i], handler)
            THEN [exc |-> "none", val |-> Bytes(EncodeSeq(obj.v))]
            ELSE [exc |-> EncodeError(handler), val |-> None]

\* [to_bytes(i, errors=errors) for i in cmd]: the first failure propagates
RECURSIVE to_bytes_list(_, _)
to_bytes_list(cmd, errors) ==
    IF cmd = <<>> THEN [exc |-> "none", val |-> <<>>]
    ELSE LET h == to_bytes(Head(cmd), errors)
             r == to_bytes_list(Tail(cmd), errors)
         IN IF h.exc # "none" THEN [exc |-> h.exc, val |-> <<>>]
            ELSE IF r.exc # "none" THEN r
            ELSE [exc |-> "none", val |-> <<h.val>> \o r.val]

(* ------------------------------- inputs ------------------------------- *)
\* code points drawn for command strings: 'a' and the escaped byte 0x80
CmdChars == {97, 56448}

RECURSIVE SeqsUpTo(_, _)
SeqsUpTo(S, n) ==
    IF n = 0 THEN {<<>>}
    ELSE LET shorter == SeqsUpTo(S, n - 1)
         IN shorter \cup {Append(s, c) : s \in shorter, c \in S}

Cmds == {Str(s) : s \in SeqsUpTo(CmdChars, MaxLen)}
\* file paths: 'a' and a file name holding the undecodable byte 0x80
Paths == {Str(<<97>>), Str(<<56448>>)}
\* container names: 'c' and a non-ASCII one
Containers == {Str(<<99>>), Str(<<233>>)}
\* remote_user: not configured, or 'u'
Users == {None, Str(<<117>>)}
InData == {None, Bytes(<<120>>)}
\* what a child process does: its exit code and its two output streams
Procs == [returncode : 0..MaxRc,
          stdout : {Bytes(<<>>), Bytes(<<111>>)},
          stderr : {Bytes(<<>>), Bytes(<<101>>)}]

(* -------------------------------- state ------------------------------- *)
VARIABLES
    container_id,   \* self._container_id
    user,           \* self.user
    PATH,           \* the executable names get_bin_path finds
    _connected,     \* self._connected
    entered,        \* self._connected when the last operation was called
    op,             \* the last operation called on the connection
    args,           \* its positional arguments
    in_data,        \* its in_data argument
    children,       \* the child processes it spawned, in order
    raised,         \* the exception it ended in, or "none"
    error,          \* the message of that exception
    result          \* the value it returned

vars == <<container_id, user, PATH, _connected, entered, op, args, in_data,
          children, raised, error, result>>

NoError == [text |-> "", subject |-> None, stderr |-> None]
NoResult == <<>>

(* ----------------------------- subprocess ----------------------------- *)
\* get_bin_path as if every name were found on the search path
get_bin_path_always(name) ==
    [exc |-> "none", val |-> Str(<<47>> \o name.v)]

\* get_bin_path(name): the resolved path, or ValueError when not found
get_bin_path(name) ==
    IF name \in PATH THEN [exc |-> "none", val |-> Str(<<47>> \o name.v)]
    ELSE [exc |-> "ValueError", val |-> None]

\* subprocess.Popen(cmd, stdin=PIPE, ...) followed by communicate(input):
\* the child gets cmd as its argument vector and input on its stdin
Popen(cmd, input, proc, flag) ==
    [argv |-> cmd, stdin |-> input, returncode |-> proc.returncode,
     stdout |-> proc.stdout, stderr |-> proc.stderr, connected |-> flag]

\* the outcome of a helper that raised before or instead of returning
Raise(exc, text, subject, stderr, spawned) ==
    [exc |-> exc,
     error |-> [text |-> text, subject |-> subject, stderr |-> stderr],
     children |-> spawned, ret |-> NoResult]

Return(ret, spawned) ==
    [exc |-> "none", error |-> NoError, children |-> spawned, ret |-> ret]

\* Connection._podman(subcommand, args, in_data) running child proc
_podman(subcommand, cmd_args, input, proc, flag) ==
    LET podman_cmd == get_bin_path(podman_executable)
    IN IF podman_cmd.exc # "none" \/ ~Truthy(podman_cmd.val)
       THEN Raise("AnsibleError", "command not found in PATH",
                  podman_executable, None, <<>>)
       ELSE LET cmd == to_bytes_list(
                           <<podman_cmd.val, Str(subcommand)>> \o cmd_args,
                           "surrogate_or_strict")
            IN IF cmd.exc # "none"
               THEN Raise(cmd.exc, "", None, None, <<>>)
               ELSE LET p == Popen(cmd.val, input, proc, flag)
                    IN Return(<<p.returncode,
                                to_bytes(p.stdout, "surrogate_or_strict").val,
                                to_bytes(p.stderr, "surrogate_or_strict").val>>,
                              <<p>>)

\* Connection._distrobox(subcommand, args, in_data) running child proc
_distrobox(subcommand, cmd_args, input, proc, flag) ==
    LET distrobox_cmd == get_bin_path(distrobox_executable)
    IN IF distrobox_cmd.exc # "none" \/ ~Truthy(distrobox_cmd.val)
       THEN Raise("AnsibleError", "command not found in PATH",
                  distrobox_executable, None, <<>>)
       ELSE LET cmd == to_bytes_list(
                           <<distrobox_cmd.val, Str(subcommand)>> \o cmd_args,
                           "surrogate_or_trict")
            IN IF cmd.exc # "none"
               THEN Raise(cmd.exc, "", None, None, <<>>)
               ELSE LET p == Popen(cmd.val, input, proc, flag)
                    IN Return(<<p.returncode,
                                to_bytes(p.stdout, "surrogate_or_strict").val,
                                to_bytes(p.stderr, "surrogate_or_strict").val>>,
                              <<p>>)

\* '--user=' + (self.user if self.user else 'root')
UserOption == Str(L_user \o (IF Truthy(user) THEN user.v ELSE L_root))

\* Connection._distrobox_exec(cmd, distrobox_args): in_data is not a
\* parameter, so _distrobox runs with its default in_data=None
_distrobox_exec(cmd, distrobox_args, proc, flag) ==
    LET enter_args == <<Str(L_a), UserOption, Str(L_name), container_id>>
                      \o distrobox_args
                      \o <<Str(L_dashdash), Str(L_bash), Str(L_l), Str(L_c), cmd>>
    IN _distrobox(L_enter, enter_args, None, proc, flag)

\* ensure_connect as if the decorator were missing
ensure_connect_skip(flag) == flag

\* the ensure_connect decorator: connect first when not connected
ensure_connect(flag) == IF ~flag THEN TRUE ELSE flag

(* ------------------------------ operations ---------------------------- *)
Init ==
    /\ container_id \in Containers
    /\ user \in Users
    /\ PATH \in SUBSET {podman_executable, distrobox_executable}
    /\ _connected = FALSE
    /\ entered = FALSE
    /\ op = "__init__"
    /\ args = <<>>
    /\ in_data = None
    /\ children = <<>>
    /\ raised = "none"
    /\ error = NoError
    /\ result = NoResult

Config == <<container_id, user, PATH>>

\* the state a call leaves behind, from the outcome r of its body
Finish(name, a, d, r) ==
    /\ op' = name
    /\ entered' = _connected
    /\ args' = a
    /\ in_data' = d
    /\ children' = r.children
    /\ raised' = r.exc
    /\ error' = r.error
    /\ result' = r.ret

\* Connection._connect()
_connect ==
    /\ _connected' = TRUE
    /\ Finish("_connect", <<>>, None, Return(NoResult, <<>>))
    /\ UNCHANGED Config

\* Connection.close()
close ==
    /\ _connected' = FALSE
    /\ Finish("close", <<>>, None, Return(NoResult, <<>>))
    /\ UNCHANGED Config

\* exec_command returning stderr in the place of stdout
exec_command_body_swapped(cmd, d, proc, flag) ==
    LET r == _distrobox_exec(cmd, <<Str(L_a), UserOption>>, proc, flag)
    IN IF r.exc # "none" THEN r
       ELSE [r EXCEPT !.ret = <<r.ret[1], r.ret[3], r.ret[3]>>]

\* the body of Connection.exec_command(cmd, in_data), run with the flag
\* the decorator left
exec_command_body(cmd, d, proc, flag) ==
    _distrobox_exec(cmd, <<Str(L_a), UserOption>>, proc, flag)

\* @ensure_connect Connection.exec_command(cmd, in_data)
exec_command ==
    \E cmd \in Cmds, d \in InData, proc \in Procs :
        LET flag == ensure_connect(_connected)
        IN /\ _connected' = flag
           /\ Finish("exec_command", <<cmd>>, d,
                     exec_command_body(cmd, d, proc, flag))
           /\ UNCHANGED Config

\* the failure carrying the child's stdout instead of its stderr
Failed_stdout(text, r) ==
    Raise("AnsibleError", text, container_id, r.ret[2], r.children)

\* the failure put_file and fetch_file raise on a non-zero exit code
Failed(text, r) ==
    Raise("AnsibleError", text, container_id, r.ret[3], r.children)

\* the chown step of Connection.put_file, after a copy that returned cp
put_file_chown(out_path, cp, proc) ==
    LET ch == _podman(L_exec, <<container_id, Str(L_chown), user, out_path>>,
                      None, proc, _connected)
        both == cp.children \o ch.children
    IN IF ch.exc # "none" THEN [ch EXCEPT !.children = both]
       ELSE IF ch.ret[1] # 0
            THEN Failed("Failed to chown file", [ch EXCEPT !.children = both])
            ELSE Return(NoResult, both)

\* Connection.put_file(in_path, out_path)
put_file ==
    \E in_path \in Paths, out_path \in Paths, proc \in Procs :
        LET cp == _podman(L_cp,
                          <<in_path,
                            Str(container_id.v \o L_colon \o out_path.v)>>,
                          None, proc, _connected)
        IN /\ \/ /\ cp.exc # "none"
                 /\ Finish("put_file", <<in_path, out_path>>, None, cp)
              \/ /\ cp.exc = "none" /\ cp.ret[1] # 0
                 /\ Finish("put_file", <<in_path, out_path>>, None,
                           Failed("Failed to copy file", cp))
              \/ /\ cp.exc = "none" /\ cp.ret[1] = 0 /\ ~Truthy(user)
                 /\ Finish("put_file", <<in_path, out_path>>, None,
                           Return(NoResult, cp.children))
              \/ /\ cp.exc = "none" /\ cp.ret[1] = 0 /\ Truthy(user)
                 /\ \E proc2 \in Procs :
                        Finish("put_file", <<in_path, out_path>>, None,
                               put_file_chown(out_path, cp, proc2))
           /\ UNCHANGED <<_connected, container_id, user, PATH>>

\* fetch_file with the container-qualified path as the destination
fetch_file_body_swapped(in_path, out_path, proc) ==
    LET cp == _podman(L_cp,
                      <<in_path, Str(container_id.v \o L_colon \o out_path.v)>>,
                      None, proc, _connected)
    IN IF cp.exc # "none" THEN cp
       ELSE IF cp.ret[1] # 0
            THEN Raise("AnsibleError", "Failed to fetch file", container_id,
                       cp.ret[3], cp.children)
       ELSE Return(NoResult, cp.children)

\* fetch_file without the check of the exit code
fetch_file_body_ignore_rc(in_path, out_path, proc) ==
    LET cp == _podman(L_cp,
                      <<Str(container_id.v \o L_colon \o in_path.v), out_path>>,
                      None, proc, _connected)
    IN IF cp.exc # "none" THEN cp ELSE Return(NoResult, cp.children)

\* the body of Connection.fetch_file(in_path, out_path)
fetch_file_body(in_path, out_path, proc) ==
    LET cp == _podman(L_cp,
                      <<Str(container_id.v \o L_colon \o in_path.v), out_path>>,
                      None, proc, _connected)
    IN IF cp.exc # "none" THEN cp
       ELSE IF cp.ret[1] # 0 THEN Failed("Failed to fetch file", cp)
       ELSE Return(NoResult, cp.children)

\* Connection.fetch_file(in_path, out_path)
fetch_file ==
    \E in_path \in Paths, out_path \in Paths, proc \in Procs :
        /\ Finish("fetch_file", <<in_path, out_path>>, None,
                  fetch_file_body(in_path, out_path, proc))
        /\ UNCHANGED <<_connected, container_id, user, PATH>>

Next == _connect \/ close \/ exec_command \/ put_file \/ fetch_file

Spec == Init /\ [][Next]_vars

(* ------------------------------ properties ---------------------------- *)
\* the bytes a text string is passed to the operating system as
Enc(s) == Bytes(EncodeSeq(s))

\* the paths the two executables resolve to
PodmanPath == <<47>> \o podman_executable.v
DistroboxPath == <<47>> \o distrobox_executable.v

HasPodman == podman_executable \in PATH
HasDistrobox == distrobox_executable \in PATH
NotFound == "command not found in PATH"

\* some child of the last call exited non-zero
SomeChildFailed == \E i \in 1..Len(children) : children[i].returncode # 0

\* C1: put_file spawns as its first child exactly [P, 'cp', in_path,
\* C:out_path] and fetch_file exactly [P, 'cp', C:in_path, out_path],
\* whenever the engine executable resolves.
C1_CopyVectors ==
    /\ (op = "put_file" /\ HasPodman) =>
           /\ Len(children) >= 1
           /\ children[1].argv =
                  <<Enc(PodmanPath), Enc(L_cp), Enc(args[1].v),
                    Enc(container_id.v \o L_colon \o args[2].v)>>
    /\ (op = "fetch_file" /\ HasPodman) =>
           /\ Len(children) >= 1
           /\ children[1].argv =
                  <<Enc(PodmanPath), Enc(L_cp),
                    Enc(container_id.v \o L_colon \o args[1].v),
                    Enc(args[2].v)>>

\* C1 witness: a fetch between two different paths, one of them holding
\* an undecodable byte, from the non-ASCII container has spawned its copy
C1_Witness ==
    /\ op = "fetch_file" /\ Len(children) = 1
    /\ args[1] = Str(<<56448>>) /\ args[2] = Str(<<97>>)
    /\ container_id = Str(<<233>>)

\* the shape C2 gives the argument vector v of exec_command's child
ExecVectorShape(v) ==
    LET n == Len(v)
        sep == n - 4
    IN /\ n >= 7
       /\ v[1] = Enc(DistroboxPath) /\ v[2] = Enc(L_enter)
       /\ SubSeq(v, sep, n) =
              <<Enc(L_dashdash), Enc(L_bash), Enc(L_l), Enc(L_c), Enc(args[1].v)>>
       /\ \E i \in 3..(sep - 2) :
              v[i] = Enc(L_name) /\ v[i + 1] = Enc(container_id.v)
       /\ \E i \in 3..(sep - 1) :
              v[i] = Enc(L_user \o (IF user = None THEN L_root ELSE user.v))

\* C2: for every command string, exec_command spawns one child whose
\* argument vector starts with [D, 'enter'], ends with ['--', 'bash', '-l',
\* '-c', cmd] and names the container and the user before the '--'.
C2_ExecVector ==
    (op = "exec_command" /\ HasDistrobox) =>
        /\ Len(children) = 1
        /\ ExecVectorShape(children[1].argv)

\* the part of C2 the code keeps: a child that is spawned has that vector
ExecVectorWhenSpawned ==
    (op = "exec_command" /\ children # <<>>) =>
        ExecVectorShape(children[1].argv)

\* C3: a put_file or fetch_file that spawned children fails exactly when
\* one of them exited non-zero, and the failure carries that child's
\* stderr; fetch_file succeeds iff its copy exits 0, put_file iff its copy
\* exits 0 and, with a remote user configured, its chown exits 0 too.
C3_TransferFailure ==
    (op \in {"put_file", "fetch_file"} /\ children # <<>>) =>
        /\ (raised # "none") <=> SomeChildFailed
        /\ raised # "none" =>
               /\ raised = "AnsibleError"
               /\ \E i \in 1..Len(children) :
                      /\ children[i].returncode # 0
                      /\ error.stderr = children[i].stderr
               /\ \A i \in 1..Len(children) :
                      children[i].returncode # 0 =>
                          error.stderr = children[i].stderr
        /\ op = "fetch_file" =>
               ((raised = "none") <=> children[1].returncode = 0)
        /\ op = "put_file" =>
               ((raised = "none") <=>
                    /\ children[1].returncode = 0
                    /\ user # None =>
                           /\ Len(children) = 2
                           /\ children[2].returncode = 0)

\* C3 witness: a put_file whose copy succeeded and whose chown failed,
\* the two children having written different error streams
C3_Witness ==
    /\ op = "put_file" /\ Len(children) = 2
    /\ children[2].returncode # 0
    /\ children[1].stderr # children[2].stderr
    /\ children[2].stdout # children[2].stderr
    /\ raised = "AnsibleError"

\* C4: exec_command returns the exit code, stdout and stderr of the child
\* it spawned, unchanged, for every exit code.
C4_ExecResult ==
    (op = "exec_command" /\ children # <<>>) =>
        /\ raised = "none"
        /\ result = <<children[1].returncode, children[1].stdout,
                      children[1].stderr>>

\* C4 witness: an exec_command whose child exited non-zero with different
\* stdout and stderr has returned
C4_Witness ==
    /\ op = "exec_command" /\ Len(children) = 1
    /\ children[1].returncode # 0
    /\ children[1].stdout # children[1].stderr
    /\ result # NoResult

\* C5 as stated: in exec_command, put_file and fetch_file a non-zero exit
\* code of a child ends the call in a fatal error.
C5_Original ==
    (op \in {"exec_command", "put_file", "fetch_file"} /\ SomeChildFailed) =>
        raised = "AnsibleError"

\* C5 amended: a non-zero exit code of a child of put_file or fetch_file
\* ends the call in a fatal error; an exec_command whose child exits
\* non-zero returns normally with that exit code first in its result.
C5_Amended ==
    /\ (op \in {"put_file", "fetch_file"} /\ SomeChildFailed) =>
           raised = "AnsibleError"
    /\ (op = "exec_command" /\ SomeChildFailed) =>
           /\ raised = "none"
           /\ result # NoResult
           /\ result[1] = children[1].returncode

\* C5 witness: a fetch_file whose copy child exited non-zero
C5_Witness ==
    /\ op = "fetch_file" /\ Len(children) = 1
    /\ children[1].returncode # 0

\* C6: a call whose tool does not resolve ends in the fatal 'command not
\* found in PATH' error naming the configured executable and spawns no
\* child; exec_command depends on the toolbox executable only, put_file
\* and fetch_file on the engine executable only.
C6_NotFound ==
    /\ (op = "exec_command" /\ ~HasDistrobox) =>
           /\ raised = "AnsibleError" /\ error.text = NotFound
           /\ error.subject = distrobox_executable
           /\ children = <<>>
    /\ (op \in {"put_file", "fetch_file"} /\ ~HasPodman) =>
           /\ raised = "AnsibleError" /\ error.text = NotFound
           /\ error.subject = podman_executable
           /\ children = <<>>
    /\ (op = "exec_command" /\ HasDistrobox) => error.text # NotFound
    /\ (op \in {"put_file", "fetch_file"} /\ HasPodman) =>
           error.text # NotFound

\* C6 witness: with the toolbox executable missing and the engine
\* executable present, an exec_command has failed without a child
C6_Witness ==
    /\ op = "exec_command" /\ ~HasDistrobox /\ HasPodman
    /\ raised = "AnsibleError" /\ children = <<>>

\* C7: the child exec_command spawns receives exactly in_data on its
\* standard input.
C7_StdinPassThrough ==
    (op = "exec_command" /\ children # <<>>) => children[1].stdin = in_data

\* the expected argument vector of put_file's chown child
ChownVector ==
    <<Enc(PodmanPath), Enc(L_exec), Enc(container_id.v), Enc(L_chown),
      Enc(user.v), Enc(args[2].v)>>

\* the part of C8 about file transfers: fetch_file spawns exactly one
\* child, put_file the copy and then, iff the copy exited 0 and a remote
\* user is configured, the chown
TransferChildren ==
    /\ (op = "fetch_file" /\ HasPodman) => Len(children) = 1
    /\ (op = "put_file" /\ HasPodman) =>
           /\ Len(children) \in {1, 2}
           /\ children[1].argv[2] = Enc(L_cp)
           /\ (Len(children) = 2) <=>
                  (children[1].returncode = 0 /\ user # None)
           /\ Len(children) = 2 => children[2].argv = ChownVector

\* C8: no call re-runs a child: exec_command and fetch_file spawn exactly
\* one child per call whatever its exit code, put_file the copy and then
\* the chown iff the copy exited 0 and a remote user is configured.
C8_NoRetry ==
    /\ (op = "exec_command" /\ HasDistrobox) => Len(children) = 1
    /\ TransferChildren

\* the part of C8 the code keeps: exec_command never spawns a second
\* child, and spawns one whenever it returns
ExecAtMostOneChild ==
    op = "exec_command" =>
        /\ Len(children) <= 1
        /\ raised = "none" => Len(children) = 1

Options(v) == SubSeq(v, 3, Len(v) - 5)

\* how many elements of sequence s satisfy Test
Count(s, Test(_)) == Cardinality({i \in 1..Len(s) : Test(s[i])})

IsOptA(e) == e = Enc(L_a)
IsOptName(e) == e = Enc(L_name)
IsOptUser(e) ==
    Len(e.v) >= Len(L_user) /\ SubSeq(e.v, 1, Len(L_user)) = L_user

\* C10: before the '--' of exec_command's argument vector there is
\* exactly one '-a', one '--user=...' element and one '--name'.
C10_OptionsOnce ==
    (op = "exec_command" /\ children # <<>>) =>
        LET o == Options(children[1].argv)
        IN /\ Count(o, IsOptA) = 1
           /\ Count(o, IsOptUser) = 1
           /\ Count(o, IsOptName) = 1

\* what the code passes instead: '-a' and '--user=...' twice, '--name' once
OptionsAsPassed ==
    (op = "exec_command" /\ children # <<>>) =>
        LET o == Options(children[1].argv)
        IN /\ Count(o, IsOptA) = 2
           /\ Count(o, IsOptUser) = 2
           /\ Count(o, IsOptName) = 1

====
